---- MODULE Spec2Model ----
(***************************************************************************)
(* A model of video/filter/vf_d3d11sr.c: the d3d11sr video filter.  The    *)
(* filter's private state (struct priv), its process cycle, render(), the  *)
(* video processor lifecycle and the render-size policy are translated     *)
(* from the C source.  The collaborators whose code lives elsewhere        *)
(* (mp_refqueue, mp_image_pool, the filter framework and the D3D11 driver) *)
(* are modelled by what the filter's documentation says of them, with      *)
(* every driver call's HRESULT a nondeterministic input of the cycle.      *)
(***************************************************************************)
EXTENDS Integers, Sequences, FiniteSets, TLC

\* ------------------------------------------------------------------------
\* Program constants (#define lines 46..56)
\* ------------------------------------------------------------------------
SUPER_RESOLUTION_OFF == 0
SUPER_RESOLUTION_NVIDIA == 1
SUPER_RESOLUTION_INTEL == 2

SUPER_RESOLUTION_AUTO == 0
SUPER_RESOLUTION_720P == 1
SUPER_RESOLUTION_1080P == 2
SUPER_RESOLUTION_1440P == 3
SUPER_RESOLUTION_2160P == 4
SUPER_RESOLUTION_2X == 5
SUPER_RESOLUTION_3X == 6

Modes == {SUPER_RESOLUTION_OFF, SUPER_RESOLUTION_NVIDIA, SUPER_RESOLUTION_INTEL}
Scales == {SUPER_RESOLUTION_AUTO, SUPER_RESOLUTION_720P, SUPER_RESOLUTION_1080P,
           SUPER_RESOLUTION_1440P, SUPER_RESOLUTION_2160P, SUPER_RESOLUTION_2X,
           SUPER_RESOLUTION_3X}

\* ------------------------------------------------------------------------
\* Bounds of the model
\* ------------------------------------------------------------------------
\* number of process cycles explored in one behaviour
MaxCycles == 2
\* how much larger than the frame a decoder texture may be (alignment padding)
TexPad == 2

\* ------------------------------------------------------------------------
\* IEEE-754 binary32 arithmetic on positive values, as get_render_size uses
\* it.  A float is [m |-> mantissa, e |-> exponent] with value m * 2^e and
\* 2^23 <= m < 2^24 (24 significant bits, round to nearest, ties to even).
\* ------------------------------------------------------------------------
Pow2(n) == 2 ^ n

F32Bits == 24

\* round a 24-bit quotient quo with remainder rem (of divisor den) to nearest,
\* ties to even; places is the number of binary places the quotient holds
F32Round(quo, rem, den, places) ==
    LET up == (2 * rem > den) \/ (2 * rem = den /\ quo % 2 = 1)
        q1 == IF up THEN quo + 1 ELSE quo
    IN  IF q1 = Pow2(F32Bits) THEN [m |-> Pow2(F32Bits - 1), e |-> 1 - places]
        ELSE [m |-> q1, e |-> -places]

\* number of significant bits of 0 <= n < 2^30
BitLen(n) == CHOOSE b \in 0..30 : n < Pow2(b) /\ (b = 0 \/ n >= Pow2(b - 1))

Min(a, b) == IF a < b THEN a ELSE b
Max(a, b) == IF a > b THEN a ELSE b

\* n <= 6 more binary places of a long division by den: quotient quo,
\* remainder rem (st is bound through a singleton set: evaluated once)
F32DivStep(st, den, n) ==
    CHOOSE v \in { [quo |-> s.quo * Pow2(n) + ((s.rem * Pow2(n)) \div den),
                    rem |-> (s.rem * Pow2(n)) % den] : s \in {st} } : TRUE

\* places binary places of the long division of num by den, 0 <= places <= 48,
\* six at a time (the intermediate values stay below 2^31)
F32DivPlaces(num, den, places) ==
    LET n(i) == Min(6, Max(0, places - 6 * i))
    IN  F32DivStep(F32DivStep(F32DivStep(F32DivStep(F32DivStep(F32DivStep(
        F32DivStep(F32DivStep([quo |-> num \div den, rem |-> num % den],
            den, n(0)), den, n(1)), den, n(2)), den, n(3)), den, n(4)),
            den, n(5)), den, n(6)), den, n(7))

\* num / den in binary32 for integers 0 < num, den < 2^24: as many binary
\* places as give the quotient 24 significant bits, then rounded
F32DivInt(num, den) ==
    LET j0 == BitLen(den) - BitLen(num)
        k  == IF num >= den THEN F32Bits - BitLen(num \div den)
              ELSE (F32Bits - 1) + (IF num * Pow2(j0) >= den THEN j0 ELSE j0 + 1)
    IN  CHOOSE v \in { F32Round(st.quo, st.rem, den, kk)
                         : st \in {F32DivPlaces(num, den, k)}, kk \in {k} } : TRUE

\* (float)n / f in binary32: n / (f.m * 2^f.e)
F32IntDivFloat(n, f) ==
    CHOOSE v \in { [m |-> d.m, e |-> d.e - f.e] : d \in {F32DivInt(n, f.m)} } : TRUE

\* (float)n * f in binary32, f = m * 2^e.  The exact product n * m needs up to
\* 37 bits, so it is kept as hi * 2^16 + lo.
F32MulParts(n, m, e) ==
    LET a   == m \div Pow2(16)
        b   == m % Pow2(16)
        lo  == (n * b) % Pow2(16)
        hi  == n * a + ((n * b) \div Pow2(16))
    IN  CHOOSE v \in
          { IF s <= 0
            THEN \* the product fits 24 bits: exact
                 [m |-> (h * Pow2(16) + l) * Pow2(-s), e |-> e + s]
            ELSE LET rd == F32Round(h * Pow2(16 - s) + (l \div Pow2(s)),
                                    l % Pow2(s), Pow2(s), 0)
                 IN  [m |-> rd.m, e |-> rd.e + s + e]
            : h \in {hi}, l \in {lo}, s \in {BitLen(hi) + 16 - F32Bits} } : TRUE
F32IntMulFloat(n, f) ==
    CHOOSE v \in { F32MulParts(n, g.m, g.e) : g \in {f} } : TRUE

\* (int)f: truncation toward zero
F32ToInt(f) ==
    IF f.e >= 0 THEN f.m * Pow2(f.e)
    ELSE IF -f.e >= F32Bits THEN 0
    ELSE f.m \div Pow2(-f.e)

\* get_render_size (lines 148..169): <<out_w, out_h>>
get_render_size(input_w, input_h, window_w, window_h) ==
    IF input_w > window_w \/ input_h > window_h
    THEN <<input_w, input_h>>
    ELSE CHOOSE v \in
           { LET h1 == F32ToInt(F32IntDivFloat(window_w, aspect_ratio))
             IN  IF h1 > window_h
                 THEN <<F32ToInt(F32IntMulFloat(window_h, aspect_ratio)), window_h>>
                 ELSE <<window_w, h1>>
             : aspect_ratio \in {F32DivInt(input_w, input_h)} } : TRUE

\* ------------------------------------------------------------------------
\* Values
\* ------------------------------------------------------------------------
\* a NULL pointer / an absent handle; a live handle is 1
NULL == 0
HANDLE == 1

IMGFMT_NONE == "NONE"
IMGFMT_420P == "420P"
IMGFMT_D3D11 == "D3D11"
IMGFMT_NV12 == "NV12"

\* frame sizes fed by the decoder: two even geometries, one with an odd
\* width, one with an odd height
EvenSizes == {<<2, 2>>, <<4, 2>>}
FrameSizes == EvenSizes \cup {<<3, 2>>, <<2, 3>>}

\* An input frame: its format, its size, and the size of the GPU texture that
\* backs it (tw, th).  A decoder texture may be larger than the frame (the
\* padded variants, given for the sizes that can reach render); a planar
\* 4:2:0 frame has no texture until render uploads it.
Frames ==
    { [imgfmt |-> fmt, w |-> s[1], h |-> s[2], tw |-> s[1], th |-> s[2]]
        : fmt \in {IMGFMT_420P, IMGFMT_D3D11}, s \in FrameSizes }
    \cup
    { [imgfmt |-> IMGFMT_D3D11, w |-> s[1], h |-> s[2],
       tw |-> s[1] + TexPad, th |-> s[2] + TexPad] : s \in EvenSizes }

NoFrame == [imgfmt |-> IMGFMT_NONE, w |-> 0, h |-> 0, tw |-> 0, th |-> 0]

\* struct mp_image_params, as far as the filter reads it
ParamsOf(f) == [imgfmt |-> f.imgfmt, w |-> f.w, h |-> f.h, hw_subfmt |-> IMGFMT_NONE]
NoParams == [imgfmt |-> IMGFMT_NONE, w |-> 0, h |-> 0, hw_subfmt |-> IMGFMT_NONE]

\* an output image: pass-through reference or rendered pool surface
NoImage == [kind |-> "none", id |-> 0, w |-> 0, h |-> 0, gen |-> 0]
PassImage(f) == [kind |-> "pass", id |-> 0, w |-> f.w, h |-> f.h, gen |-> 0]
\* the D3D11_TEXTURE2D_DESC of the input texture, as far as render reads it
TexDesc(tw, th) == [kind |-> "texture", id |-> 0, w |-> tw, h |-> th, gen |-> 0]

\* the D3D11_VIDEO_PROCESSOR_CONTENT_DESC an enumerator was created with
NoDesc == [InputWidth |-> 0, InputHeight |-> 0, OutputWidth |-> 0, OutputHeight |-> 0]

\* the calls of one cycle that can fail and end it; "none": every call succeeds
FailPoints == {"none", "alloc", "noinput", "enum", "caps", "proc",
               "inview", "outview", "blt"}

\* ------------------------------------------------------------------------
\* State
\* ------------------------------------------------------------------------
VARIABLES
    opts,       \* struct opts: mode, scale (fixed at construction)
    p,          \* struct priv: video_proc, vp_enum, out_format, params,
                \*   out_params, c_w, c_h (and the desc/rect given to the driver)
    q,          \* mp_refqueue: in_fmt (format of the last reinit), frame (current)
    pool,       \* mp_image_pool: set of surfaces [id, w, h, gen, referenced]
    held,       \* rendered images the downstream filter still references
    live,       \* live driver objects the filter created, by kind
    failed,     \* mp_filter_internal_mark_failed was called
    crashed,    \* the process died in undefined behaviour
    gen,        \* number of reinits so far
    next_id,    \* number of surfaces alloc_pool created so far
    cycles,     \* number of process cycles so far
    trace,      \* the calls of the last operation, in order
    hist,       \* history of the geometry checks (for the rebuild claims)
    life,       \* the objects vf_d3d11sr_create acquired and uninit released
    rs,         \* one evaluation of get_render_size: arguments and result
    upl         \* one software upload: the source image and the mapped texture

vars == <<opts, p, q, pool, held, live, failed, crashed, gen, next_id, cycles,
          trace, hist, life, rs, upl>>

\* ------------------------------------------------------------------------
\* The context threaded through one handler: the part of the state the
\* handler's callees change.
\* ------------------------------------------------------------------------
Ctx == [p |-> p, pool |-> pool, live |-> live, failed |-> failed,
        gen |-> gen, next_id |-> next_id, trace |-> <<>>, hist |-> hist]

Ev(name, ok, img) == [e |-> name, ok |-> ok, img |-> img]
Log(c, name, ok) == [c EXCEPT !.trace = Append(@, Ev(name, ok, NoImage))]
LogImg(c, name, ok, img) == [c EXCEPT !.trace = Append(@, Ev(name, ok, img))]

Names(tr) == { tr[i].e : i \in 1..Len(tr) }
Has(tr, name) == \E i \in 1..Len(tr) : tr[i].e = name
HasOk(tr, name) == \E i \in 1..Len(tr) : tr[i].e = name /\ tr[i].ok
HasFailed(tr, name) == \E i \in 1..Len(tr) : tr[i].e = name /\ ~tr[i].ok
Count(tr, name) == Cardinality({ i \in 1..Len(tr) : tr[i].e = name })
CountOk(tr, name) == Cardinality({ i \in 1..Len(tr) : tr[i].e = name /\ tr[i].ok })
\* every occurrence of a precedes every occurrence of b
Before(tr, a, b) ==
    \A i, j \in 1..Len(tr) : (tr[i].e = a /\ tr[j].e = b) => i < j

\* F applied to the value of v: the value is computed once and then named,
\* as a local variable of the C code is
With(v, F(_)) == CHOOSE res \in { F(x) : x \in {v} } : TRUE

\* ------------------------------------------------------------------------
\* Video processor lifecycle
\* ------------------------------------------------------------------------
\* a faulty variant of destroy_video_proc: only the enumerator is released
destroy_video_proc_mut(c) ==
    LET c3 == IF c.p.vp_enum # NULL
              THEN [Log(c, "ID3D11VideoProcessorEnumerator_Release", TRUE)
                        EXCEPT !.live.vp_enum = @ - 1]
              ELSE c
    IN  [c3 EXCEPT !.p.vp_enum = NULL]
\* destroy_video_proc (lines 134..145)
destroy_video_proc(c) ==
    LET c1 == IF c.p.video_proc # NULL
              THEN [Log(c, "ID3D11VideoProcessor_Release", TRUE)
                        EXCEPT !.live.proc = @ - 1]
              ELSE c
        c2 == [c1 EXCEPT !.p.video_proc = NULL]
        c3 == IF c2.p.vp_enum # NULL
              THEN [Log(c2, "ID3D11VideoProcessorEnumerator_Release", TRUE)
                        EXCEPT !.live.vp_enum = @ - 1]
              ELSE c2
    IN  [c3 EXCEPT !.p.vp_enum = NULL]

\* a faulty variant of recreate_fail: the fail path returns without releasing anything
recreate_fail_mut(c) == [c |-> c, res |-> -1]
\* the fail: label of recreate_video_proc (lines 343..345)
recreate_fail(c) == [c |-> destroy_video_proc(c), res |-> -1]

\* recreate_video_proc (lines 277..346); fail names the call that fails
recreate_video_proc(c, fail) ==
    With(destroy_video_proc(c), LAMBDA c0 :
    With(Log(c0, "CreateVideoProcessorEnumerator", fail # "enum"), LAMBDA c1 :
    IF fail = "enum" THEN recreate_fail(c1)
    ELSE
    With(Log([c1 EXCEPT !.p.vp_enum = HANDLE,
                        !.p.vp_desc = [InputWidth |-> c1.p.c_w,
                                       InputHeight |-> c1.p.c_h,
                                       OutputWidth |-> c1.p.out_params.w,
                                       OutputHeight |-> c1.p.out_params.h],
                        !.live.vp_enum = @ + 1],
             "GetVideoProcessorCaps", fail # "caps"), LAMBDA c3 :
    IF fail = "caps" THEN recreate_fail(c3)
    ELSE
    With(Log(c3, "CreateVideoProcessor", fail # "proc"), LAMBDA c4 :
    IF fail = "proc" THEN recreate_fail(c4)
    ELSE [c |-> Log([c4 EXCEPT !.p.video_proc = HANDLE,
                               !.p.src_rc = [right |-> c4.p.params.w,
                                             bottom |-> c4.p.params.h],
                               !.live.proc = @ + 1],
                    "VideoProcessorSetStreamSourceRect", TRUE),
          res |-> 0]))))

\* a faulty variant of need_rebuild: the check does not compare the widths
need_rebuild_width_mut(pp, tw, th) == pp.video_proc = NULL \/ pp.c_h # th
\* a faulty variant of need_rebuild: the check does not look at the processor
need_rebuild_mut(pp, tw, th) == pp.c_w # tw \/ pp.c_h # th
\* the rebuild condition of render (line 432)
need_rebuild(pp, tw, th) == pp.video_proc = NULL \/ pp.c_w # tw \/ pp.c_h # th

\* ------------------------------------------------------------------------
\* Output pool
\* ------------------------------------------------------------------------
\* alloc_pool (lines 94..126): the allocator callback; ok is CreateTexture2D's
\* result.  The new surface is tagged with the reinit generation it is made in.
alloc_pool(c, w, h, ok) ==
    LET c1 == Log(c, "alloc_pool", ok)
    IN  IF ~ok THEN [c |-> c1, img |-> NoImage]
        ELSE LET id == c1.next_id + 1
                 img == [kind |-> "render", id |-> id, w |-> w, h |-> h,
                         gen |-> c1.gen]
             IN  [c |-> [c1 EXCEPT !.next_id = id, !.live.out_tex = @ + 1],
                  img |-> img]

\* mp_image_pool_get: a free surface of the requested size, least recently
\* used first, else a new one from the allocator
mp_image_pool_get(c, w, h, ok) ==
    LET free == { s \in c.pool : ~s.referenced /\ s.w = w /\ s.h = h }
    IN  IF free # {}
        THEN LET s == CHOOSE x \in free : \A y \in free : x.id <= y.id
                 img == [kind |-> "render", id |-> s.id, w |-> s.w, h |-> s.h,
                         gen |-> s.gen]
             IN  [c |-> [LogImg(c, "mp_image_pool_get", TRUE, img) EXCEPT
                            !.pool = (@ \ {s}) \cup {[s EXCEPT !.referenced = TRUE]}],
                  img |-> img]
        ELSE With(alloc_pool(c, w, h, ok), LAMBDA a :
             IF a.img = NoImage
             THEN [c |-> LogImg(a.c, "mp_image_pool_get", FALSE, NoImage),
                   img |-> NoImage]
             ELSE [c |-> [LogImg(a.c, "mp_image_pool_get", TRUE, a.img) EXCEPT
                            !.pool = @ \cup {[id |-> a.img.id, w |-> w, h |-> h,
                                              gen |-> a.img.gen,
                                              referenced |-> TRUE]}],
                   img |-> a.img])

\* mp_image_pool_clear: unreferenced surfaces are freed (release_tex, lines
\* 87..92), referenced ones are left to their holders; the pool is empty after
mp_image_pool_clear(c) ==
    LET freed == { s \in c.pool : ~s.referenced }
    IN  [Log(c, "mp_image_pool_clear", TRUE) EXCEPT
            !.pool = {}, !.live.out_tex = @ - Cardinality(freed)]

\* the last reference to a pool image is dropped: its surface goes back to the
\* pool if the pool still knows it, else the texture is released
image_unref(c, img) ==
    IF \E s \in c.pool : s.id = img.id
    THEN [c EXCEPT !.pool = { IF s.id = img.id THEN [s EXCEPT !.referenced = FALSE]
                              ELSE s : s \in @ }]
    ELSE [c EXCEPT !.live.out_tex = @ - 1]

\* ------------------------------------------------------------------------
\* Vendor extensions.  ext is the number of extension calls that succeed
\* before the first one that fails.
\* ------------------------------------------------------------------------
\* SetSuperResNvidia (lines 171..197)
SetSuperResNvidia(c, ext) == Log(c, "SetStreamExtension_Nvidia", ext >= 1)

\* a faulty variant of SetSuperResIntel: a failed call does not end the adapter
SetSuperResIntel_mut(c, ext) ==
    Log(Log(Log(c, "SetOutputExtension_IntelVersion", ext >= 1),
            "SetOutputExtension_IntelMode", ext >= 2),
        "SetStreamExtension_IntelScaling", ext >= 3)
\* SetSuperResIntel (lines 199..275)
SetSuperResIntel(c, ext) ==
    LET c1 == Log(c, "SetOutputExtension_IntelVersion", ext >= 1)
    IN  IF ext < 1 THEN c1
        ELSE LET c2 == Log(c1, "SetOutputExtension_IntelMode", ext >= 2)
             IN  IF ext < 2 THEN c2
                 ELSE Log(c2, "SetStreamExtension_IntelScaling", ext >= 3)

\* the number of extension calls a mode makes
ExtCalls(mode) ==
    IF mode = SUPER_RESOLUTION_NVIDIA THEN 1
    ELSE IF mode = SUPER_RESOLUTION_INTEL THEN 3 ELSE 0

\* a faulty variant of cleanup: the output image is kept when the frame failed
cleanup_mut(c, res, in_view, out_view, out) ==
    LET c1 == IF in_view # NULL
              THEN [Log(c, "ID3D11VideoProcessorInputView_Release", TRUE)
                        EXCEPT !.live.in_view = @ - 1]
              ELSE c
        c2 == IF out_view # NULL
              THEN [Log(c1, "ID3D11VideoProcessorOutputView_Release", TRUE)
                        EXCEPT !.live.out_view = @ - 1]
              ELSE c1
    IN  [c |-> c2, out |-> out, crashed |-> FALSE]
\* ------------------------------------------------------------------------
\* render
\* ------------------------------------------------------------------------
\* the cleanup: label of render (lines 492..499): release the views that were
\* created, free the output image unless the frame succeeded
cleanup(c, res, in_view, out_view, out) ==
    LET c1 == IF in_view # NULL
              THEN [Log(c, "ID3D11VideoProcessorInputView_Release", TRUE)
                        EXCEPT !.live.in_view = @ - 1]
              ELSE c
        c2 == IF out_view # NULL
              THEN [Log(c1, "ID3D11VideoProcessorOutputView_Release", TRUE)
                        EXCEPT !.live.out_view = @ - 1]
              ELSE c1
    IN  IF res < 0
        THEN [c |-> IF out # NoImage
                    THEN image_unref(LogImg(c2, "TA_FREEP_out", TRUE, out), out)
                    ELSE c2,
              out |-> NoImage, crashed |-> FALSE]
        ELSE [c |-> c2, out |-> out, crashed |-> FALSE]

\* a faulty variant of enhance_and_blt: a failed extension call ends the frame
enhance_and_blt_mut(c, mode, ext, blt_ok) ==
    LET c1 == IF mode = SUPER_RESOLUTION_NVIDIA THEN SetSuperResNvidia(c, ext)
              ELSE IF mode = SUPER_RESOLUTION_INTEL THEN SetSuperResIntel(c, ext)
              ELSE c
    IN  IF ext < ExtCalls(mode) THEN [c |-> c1, res |-> -1]
        ELSE [c |-> Log(c1, "VideoProcessorBlt", blt_ok),
              res |-> IF blt_ok THEN 0 ELSE -1]
\* the vendor switch and the processing submission (lines 475..491): the
\* extension calls return nothing to render, the Blt decides the frame
enhance_and_blt(c, mode, ext, blt_ok) ==
    LET c1 == IF mode = SUPER_RESOLUTION_NVIDIA THEN SetSuperResNvidia(c, ext)
              ELSE IF mode = SUPER_RESOLUTION_INTEL THEN SetSuperResIntel(c, ext)
              ELSE c
    IN  [c |-> Log(c1, "VideoProcessorBlt", blt_ok),
         res |-> IF blt_ok THEN 0 ELSE -1]

\* history of the geometry checks (not program state):
\*   last: the surface size of the last frame that left the geometry check
\*         with a processor; broken: a reinit or a failed rebuild happened
\*         since; results: the outcomes of the last two checks;
\*   n_rebuilt: successful rebuilds; n_runs: maximal runs of equal surface
\*         size among the frames that left the check with a processor;
\*   n_runs_cut: the same runs, also cut at every reinit and failed rebuild;
\*   same: the last check saw the surface size of the frame rendered before
\*         it, with no reinit and no failed rebuild in between;
\*   flushed: a flush happened since the last check; after_flush: the last
\*         check was the first one after a flush;
\*   n_dropped: renders that returned no image; n_off, n_pass: cycles of
\*         mode Off that had an even-sized frame to pass, and frames passed;
\*   seen: the surface size of the last frame that reached the geometry
\*         check; checked, rendered: since construction or the last reinit, a
\*         frame reached the geometry check, render returned an image
Last2(sq) == IF Len(sq) > 2 THEN SubSeq(sq, Len(sq) - 1, Len(sq)) ELSE sq
NoteCheck(h0, tw, th, outcome) ==
    LET h == [h0 EXCEPT !.seen = [set |-> TRUE, w |-> tw, h |-> th],
                        !.checked = TRUE]
    IN
    IF outcome = "fail"
    THEN [h EXCEPT !.broken = TRUE, !.results = Last2(Append(@, outcome)),
                   !.same = FALSE, !.after_flush = h.flushed, !.flushed = FALSE]
    ELSE LET changed == ~h.last.set \/ h.last.w # tw \/ h.last.h # th
         IN  [h EXCEPT !.last = [set |-> TRUE, w |-> tw, h |-> th],
                       !.broken = FALSE,
                       !.same = ~changed /\ ~h.broken,
                       !.after_flush = h.flushed, !.flushed = FALSE,
                       !.results = Last2(Append(@, outcome)),
                       !.n_rebuilt = @ + (IF outcome = "ok" THEN 1 ELSE 0),
                       !.n_runs = @ + (IF changed THEN 1 ELSE 0),
                       !.n_runs_cut = @ + (IF changed \/ h.broken THEN 1 ELSE 0)]

\* render, from the geometry check on (lines 430..500); tw, th are the sizes
\* ID3D11Texture2D_GetDesc reports for the input texture
render_tail(c0, mode, io, out, tw, th) ==
    With(LogImg(c0, "ID3D11Texture2D_GetDesc", TRUE, TexDesc(tw, th)), LAMBDA c :
    With(need_rebuild(c.p, tw, th), LAMBDA need :
    With(IF need
         THEN recreate_video_proc(
                  Log([c EXCEPT !.p.c_w = tw, !.p.c_h = th],
                      "recreate_video_proc", TRUE), io.fail)
         ELSE [c |-> c, res |-> 0], LAMBDA r :
    With([Log(r.c, "geometry_check", r.res >= 0)
             EXCEPT !.hist = NoteCheck(@, tw, th,
                                 IF ~need THEN "keep"
                                 ELSE IF r.res < 0 THEN "fail" ELSE "ok")],
         LAMBDA c2 :
    IF r.res < 0 THEN cleanup(c2, -1, NULL, NULL, out)
    ELSE
    With(Log(c2, "CreateVideoProcessorInputView", io.fail # "inview"),
         LAMBDA c3 :
    IF io.fail = "inview" THEN cleanup(c3, -1, NULL, NULL, out)
    ELSE
    With([Log(c3, "CreateVideoProcessorOutputView", io.fail # "outview")
             EXCEPT !.live.in_view = @ + 1], LAMBDA c4 :
    IF io.fail = "outview" THEN cleanup(c4, -1, HANDLE, NULL, out)
    ELSE
    With(enhance_and_blt([c4 EXCEPT !.live.out_view = @ + 1], mode, io.ext,
                         io.fail # "blt"), LAMBDA b :
    cleanup(b.c, b.res, HANDLE, HANDLE, out))))))))

\* render (lines 348..500); in is the frame mp_refqueue_get(p->queue, 0)
\* returns.  io.upload is the outcome of the unchecked CreateTexture2D of the
\* software upload: "ok"; or the texture pointer stays uninitialized, and the
\* process either dies using it ("crash") or goes on with whatever size
\* GetDesc reads through it ("garbage": io.gw, io.gh).
render(c, mode, in, io) ==
    With(mp_image_pool_get(c, c.p.out_params.w, c.p.out_params.h,
                           io.fail # "alloc"), LAMBDA g :
    IF g.img = NoImage THEN cleanup(g.c, -1, NULL, NULL, NoImage)
    ELSE
    With(Log(g.c, "mp_refqueue_get", io.fail # "noinput"), LAMBDA c1 :
    IF io.fail = "noinput" THEN cleanup(c1, -1, NULL, NULL, g.img)
    ELSE
    LET planar == in.imgfmt = IMGFMT_420P
        tw == IF ~planar THEN in.tw
              ELSE IF io.upload = "ok" THEN in.w ELSE io.gw
        th == IF ~planar THEN in.th
              ELSE IF io.upload = "ok" THEN in.h ELSE io.gh
    IN  With(IF planar
             THEN [Log(c1, "CreateTexture2D_upload", io.upload = "ok")
                      EXCEPT !.live.upload_tex =
                                 @ + (IF io.upload = "ok" THEN 1 ELSE 0)]
             ELSE c1, LAMBDA c2 :
        \* mp_image_copy_attributes, then the size set back (421..428)
        With(IF mode # SUPER_RESOLUTION_OFF
             THEN [g.img EXCEPT !.w = c2.p.out_params.w,
                                !.h = c2.p.out_params.h]
             ELSE [g.img EXCEPT !.w = in.w, !.h = in.h], LAMBDA out :
        IF planar /\ io.upload = "crash"
        THEN [c |-> Log(c2, "crash", FALSE), out |-> NoImage, crashed |-> TRUE]
        ELSE render_tail(c2, mode, io, out, tw, th)))))

\* ------------------------------------------------------------------------
\* The buffering collaborator (mp_refqueue), configured with no forward and
\* no backward references: one current frame, one-in-one-out.
\* ------------------------------------------------------------------------
\* mp_refqueue_execute_reinit: take the arriving frame; a frame whose
\* parameters differ from those of the last reinit reports a reinit
mp_refqueue_execute_reinit(qq, arrive) ==
    IF arrive = NoFrame THEN [q |-> qq, reinit |-> FALSE, in_fmt |-> NoParams]
    ELSE IF ParamsOf(arrive) # qq.in_fmt
    THEN [q |-> [in_fmt |-> ParamsOf(arrive), frame |-> arrive],
          reinit |-> TRUE, in_fmt |-> ParamsOf(arrive)]
    ELSE [q |-> [qq EXCEPT !.frame = arrive], reinit |-> FALSE, in_fmt |-> NoParams]

\* mp_refqueue_can_output: a current frame is there and enough is buffered
mp_refqueue_can_output(qq, enough) == qq.frame # NoFrame /\ enough

\* mp_refqueue_write_out_pin: an image is written to the output pin, an
\* absent one produces nothing; the queue moves past the current frame
mp_refqueue_write_out_pin(c, img) ==
    LET c1 == LogImg(c, "mp_refqueue_write_out_pin", img # NoImage, img)
    IN  [c1 EXCEPT !.consumed = TRUE,
                   !.hist.n_pass = @ + (IF img.kind = "pass" THEN 1 ELSE 0),
                   !.held = IF img.kind = "render" THEN @ \cup {img} ELSE @]

\* mp_refqueue_flush: the queued frames are dropped
mp_refqueue_flush(qq) == [qq EXCEPT !.frame = NoFrame]

\* ------------------------------------------------------------------------
\* The process cycle
\* ------------------------------------------------------------------------
\* the scale target (lines 514..540)
window_size(scale, in_w, in_h) ==
    CASE scale = SUPER_RESOLUTION_720P -> <<1280, 720>>
      [] scale \in {SUPER_RESOLUTION_AUTO, SUPER_RESOLUTION_1080P} -> <<1920, 1080>>
      [] scale = SUPER_RESOLUTION_1440P -> <<2560, 1440>>
      [] scale = SUPER_RESOLUTION_2160P -> <<3840, 2160>>
      [] scale = SUPER_RESOLUTION_2X -> <<2 * in_w, 2 * in_h>>
      [] scale = SUPER_RESOLUTION_3X -> <<3 * in_w, 3 * in_h>>

\* get_render_size applied to the scale target, tabulated once for the frame
\* sizes and scales of the model: <<w, h, scale, <<out_w, out_h>>>>
RenderSizes ==
    { <<s[1], s[2], sc,
        get_render_size(s[1], s[2], window_size(sc, s[1], s[2])[1],
                        window_size(sc, s[1], s[2])[2])>>
        : s \in FrameSizes, sc \in Scales }
render_size_for(w, h, scale) ==
    (CHOOSE t \in RenderSizes : t[1] = w /\ t[2] = h /\ t[3] = scale)[4]

\* a faulty variant of on_reinit: the reinit block keeps the processor
on_reinit_keep_mut(c, in_fmt, o) ==
    With(mp_image_pool_clear(c), LAMBDA c2 :
    With([c2 EXCEPT !.p.params = in_fmt, !.p.out_params = in_fmt,
                    !.gen = @ + 1, !.hist.broken = TRUE,
                    !.hist.checked = FALSE, !.hist.rendered = FALSE], LAMBDA c3 :
    IF o.mode # SUPER_RESOLUTION_OFF
    THEN With(render_size_for(c3.p.params.w, c3.p.params.h, o.scale), LAMBDA sz :
              [c3 EXCEPT !.p.out_params.w = sz[1], !.p.out_params.h = sz[2],
                         !.p.out_params.hw_subfmt = IMGFMT_NV12,
                         !.p.out_format = IMGFMT_NV12])
    ELSE c3))
\* a faulty variant of on_reinit: the reinit block does not clear the pool
on_reinit_mut(c, in_fmt, o) ==
    With(destroy_video_proc(c), LAMBDA c2 :
    With([c2 EXCEPT !.p.params = in_fmt, !.p.out_params = in_fmt,
                    !.gen = @ + 1, !.hist.broken = TRUE,
                    !.hist.checked = FALSE, !.hist.rendered = FALSE], LAMBDA c3 :
    IF o.mode # SUPER_RESOLUTION_OFF
    THEN With(render_size_for(c3.p.params.w, c3.p.params.h, o.scale), LAMBDA sz :
              [c3 EXCEPT !.p.out_params.w = sz[1], !.p.out_params.h = sz[2],
                         !.p.out_params.hw_subfmt = IMGFMT_NV12,
                         !.p.out_format = IMGFMT_NV12])
    ELSE c3))
\* the reinit block of vf_d3d11sr_process (lines 506..546)
on_reinit(c, in_fmt, o) ==
    With(destroy_video_proc(mp_image_pool_clear(c)), LAMBDA c2 :
    With([c2 EXCEPT !.p.params = in_fmt, !.p.out_params = in_fmt,
                    !.gen = @ + 1, !.hist.broken = TRUE,
                    !.hist.checked = FALSE, !.hist.rendered = FALSE], LAMBDA c3 :
    IF o.mode # SUPER_RESOLUTION_OFF
    THEN With(render_size_for(c3.p.params.w, c3.p.params.h, o.scale), LAMBDA sz :
              [c3 EXCEPT !.p.out_params.w = sz[1], !.p.out_params.h = sz[2],
                         !.p.out_params.hw_subfmt = IMGFMT_NV12,
                         !.p.out_format = IMGFMT_NV12])
    ELSE c3))

\* a faulty variant of uneven: only the width is tested
uneven_mut(params) == params.w % 2 # 0
\* the parity check (line 551)
uneven(params) == params.w % 2 # 0 \/ params.h % 2 # 0

\* a faulty variant of pass_through: only the Nvidia mode renders
pass_through_mut(mode) == mode # SUPER_RESOLUTION_NVIDIA
\* the dispatch (line 557)
pass_through(mode) == mode = SUPER_RESOLUTION_OFF

\* a faulty variant of pass_frame: the reference is taken but not written out
pass_frame_mut(c, in, ok) ==
    LET c1 == Log(c, "mp_image_new_ref", ok)
    IN  IF ~ok THEN [Log(c1, "mp_filter_internal_mark_failed", TRUE)
                        EXCEPT !.failed = TRUE]
        ELSE c1
\* the pass-through branch (lines 558..563); ok: mp_image_new_ref of the
\* current frame is not NULL
pass_frame(c, in, ok) ==
    LET c1 == Log(c, "mp_image_new_ref", ok)
    IN  IF ~ok THEN [Log(c1, "mp_filter_internal_mark_failed", TRUE)
                        EXCEPT !.failed = TRUE]
        ELSE mp_refqueue_write_out_pin(c1, PassImage(in))

\* a faulty variant of submit_render: a frame without image marks the stream failed
submit_render_mut(c, r) ==
    IF r.crashed THEN [r.c EXCEPT !.crashed = TRUE]
    ELSE IF r.out = NoImage
    THEN [Log(r.c, "mp_filter_internal_mark_failed", TRUE) EXCEPT !.failed = TRUE]
    ELSE mp_refqueue_write_out_pin(r.c, r.out)
\* the render branch (line 565)
submit_render(c, r) ==
    IF r.crashed THEN [r.c EXCEPT !.crashed = TRUE]
    ELSE mp_refqueue_write_out_pin(r.c, r.out)

\* what a handler starts from, and how its result becomes the next state
Start(name) == Log([Ctx EXCEPT !.trace = <<>>] @@
                   [consumed |-> FALSE, crashed |-> FALSE, held |-> held], name, TRUE)
Commit(c, qq) ==
    /\ p' = c.p
    /\ pool' = c.pool
    /\ held' = c.held
    /\ live' = c.live
    /\ failed' = c.failed
    /\ crashed' = c.crashed
    /\ gen' = c.gen
    /\ next_id' = c.next_id
    /\ trace' = c.trace
    /\ hist' = c.hist
    /\ q' = IF c.consumed THEN [qq EXCEPT !.frame = NoFrame] ELSE qq

\* a faulty variant of process: the parity is tested before the buffering
process_mut(io) ==
    With(mp_refqueue_execute_reinit(q, io.arrive), LAMBDA r :
    With(mp_refqueue_can_output(r.q, io.enough), LAMBDA can :
    With(IF r.reinit
         THEN on_reinit(Log(Start("vf_d3d11sr_process"), "reinit", TRUE),
                        r.in_fmt, opts)
         ELSE Start("vf_d3d11sr_process"), LAMBDA c1 :
    With([Log(c1, "mp_refqueue_can_output", can)
             EXCEPT !.hist.n_off =
                        @ + (IF /\ can /\ opts.mode = SUPER_RESOLUTION_OFF
                                /\ r.q.frame.w % 2 = 0 /\ r.q.frame.h % 2 = 0
                                /\ io.fail # "noinput"
                             THEN 1 ELSE 0)], LAMBDA c2 :
    IF uneven(c2.p.params)
    THEN [c |-> [Log(c2, "mp_filter_internal_mark_failed", TRUE)
                    EXCEPT !.failed = TRUE],
          q |-> r.q]
    ELSE IF ~can
    THEN [c |-> c2, q |-> r.q]
    ELSE IF pass_through(opts.mode)
    THEN [c |-> pass_frame(c2, r.q.frame, io.fail # "noinput"), q |-> r.q]
    ELSE With(render(c2, opts.mode, r.q.frame, io), LAMBDA rr :
              [c |-> submit_render(c2,
                       [rr EXCEPT !.c.hist.n_dropped =
                                      @ + (IF ~rr.crashed /\ rr.out = NoImage
                                           THEN 1 ELSE 0),
                                  !.c.hist.rendered =
                                      @ \/ (~rr.crashed /\ rr.out # NoImage)]),
               q |-> r.q])))))
\* vf_d3d11sr_process (lines 502..567) as a function of the cycle's inputs
process(io) ==
    With(mp_refqueue_execute_reinit(q, io.arrive), LAMBDA r :
    With(mp_refqueue_can_output(r.q, io.enough), LAMBDA can :
    With(IF r.reinit
         THEN on_reinit(Log(Start("vf_d3d11sr_process"), "reinit", TRUE),
                        r.in_fmt, opts)
         ELSE Start("vf_d3d11sr_process"), LAMBDA c1 :
    With([Log(c1, "mp_refqueue_can_output", can)
             EXCEPT !.hist.n_off =
                        @ + (IF /\ can /\ opts.mode = SUPER_RESOLUTION_OFF
                                /\ r.q.frame.w % 2 = 0 /\ r.q.frame.h % 2 = 0
                                /\ io.fail # "noinput"
                             THEN 1 ELSE 0)], LAMBDA c2 :
    IF ~can
    THEN [c |-> c2, q |-> r.q]
    ELSE IF uneven(c2.p.params)
    THEN [c |-> [Log(c2, "mp_filter_internal_mark_failed", TRUE)
                    EXCEPT !.failed = TRUE],
          q |-> r.q]
    ELSE IF pass_through(opts.mode)
    THEN [c |-> pass_frame(c2, r.q.frame, io.fail # "noinput"), q |-> r.q]
    ELSE With(render(c2, opts.mode, r.q.frame, io), LAMBDA rr :
              [c |-> submit_render(c2,
                       [rr EXCEPT !.c.hist.n_dropped =
                                      @ + (IF ~rr.crashed /\ rr.out = NoImage
                                           THEN 1 ELSE 0),
                                  !.c.hist.rendered =
                                      @ \/ (~rr.crashed /\ rr.out # NoImage)]),
               q |-> r.q])))))

\* the inputs a cycle can read in the current state: the frame that arrives
\* (none while the current one is still queued), whether enough is buffered,
\* the first call that fails, the extension calls that succeed, the upload
Io(a, en, fl, up, ex, g) ==
    [arrive |-> a, enough |-> en, fail |-> fl, upload |-> up, ext |-> ex,
     gw |-> g[1], gh |-> g[2]]
GarbageSizes == {<<2, 2>>, <<4 + TexPad, 2 + TexPad>>}
UploadOutcomes(f, fl) ==
    IF f.imgfmt = IMGFMT_420P /\ fl \notin {"alloc", "noinput"}
    THEN {<<"ok", <<0, 0>>>>, <<"crash", <<0, 0>>>>}
         \cup { <<"garbage", g>> : g \in GarbageSizes }
    ELSE {<<"ok", <<0, 0>>>>}
ExtOutcomes(mode, fl) ==
    IF fl \in {"none", "blt"} THEN 0..ExtCalls(mode) ELSE {ExtCalls(mode)}
InputsFor(a) ==
    LET f == IF a # NoFrame THEN a ELSE q.frame
        n == ExtCalls(opts.mode)
    IN  IF f = NoFrame THEN {Io(a, FALSE, "none", "ok", n, <<0, 0>>)}
        ELSE {Io(a, FALSE, "none", "ok", n, <<0, 0>>)} \cup
             (IF f.w % 2 # 0 \/ f.h % 2 # 0
              THEN {Io(a, TRUE, "none", "ok", n, <<0, 0>>)}
              ELSE IF opts.mode = SUPER_RESOLUTION_OFF
              THEN {Io(a, TRUE, fl, "ok", n, <<0, 0>>) : fl \in {"none", "noinput"}}
              ELSE UNION { UNION { { Io(a, TRUE, fl, u[1], ex, u[2])
                                       : ex \in ExtOutcomes(opts.mode, fl) }
                                   : u \in UploadOutcomes(f, fl) }
                           : fl \in FailPoints })
Inputs ==
    UNION { InputsFor(a) : a \in (IF q.frame = NoFrame
                                  THEN Frames \cup {NoFrame} ELSE {NoFrame}) }

vf_d3d11sr_process ==
    /\ life.phase = "bound"
    /\ ~crashed
    /\ cycles < MaxCycles
    /\ \E io \in Inputs : \E r \in {process(io)} : Commit(r.c, r.q)
    /\ cycles' = cycles + 1
    /\ UNCHANGED <<opts, life, rs, upl>>

\* a faulty variant of flush_frames: the reset also destroys the processor
flush_frames_mut ==
    /\ life.phase = "bound"
    /\ ~crashed
    /\ LET c == destroy_video_proc(Start("flush_frames"))
       IN  Commit([c EXCEPT !.hist.flushed = TRUE], mp_refqueue_flush(q))
    /\ UNCHANGED <<opts, cycles, life, rs, upl>>
\* flush_frames (lines 128..132), the filter's reset callback
flush_frames ==
    /\ life.phase = "bound"
    /\ ~crashed
    /\ LET c == Start("flush_frames")
       IN  Commit([c EXCEPT !.hist.flushed = TRUE], mp_refqueue_flush(q))
    /\ UNCHANGED <<opts, cycles, life, rs, upl>>

\* the downstream filter drops its reference to a rendered image
release_image ==
    /\ life.phase = "bound"
    /\ ~crashed
    /\ \E img \in held :
          LET c == image_unref(LogImg(Start("release_image"), "unref", TRUE, img), img)
          IN  Commit([c EXCEPT !.held = @ \ {img}], q)
    /\ UNCHANGED <<opts, cycles, life, rs, upl>>

\* ------------------------------------------------------------------------
\* Construction and teardown (lines 569..666).  `life' records, per object
\* the filter owns, the pointer stored in struct priv and how many references
\* were acquired and released.
\* ------------------------------------------------------------------------
Refs == {"vo_dev", "video_dev", "device_ctx", "video_ctx"}
Objs == Refs \cup {"queue", "pool"}

\* struct priv as mp_filter_create leaves it: zeroed
Unbound == [phase |-> "unbound", ptr |-> [o \in Objs |-> NULL],
            acquired |-> [o \in Objs |-> 0], released |-> [o \in Objs |-> 0]]
\* struct priv when vf_d3d11sr_create returned the filter (line 661)
Bound == [phase |-> "bound", ptr |-> [o \in Objs |-> HANDLE],
          acquired |-> [o \in Objs |-> 1], released |-> [o \in Objs |-> 0]]

\* a reference (or allocation) is taken and stored in struct priv
acquire(s, o) ==
    [s EXCEPT !.life.ptr[o] = HANDLE, !.life.acquired[o] = @ + 1]

\* a faulty variant of release_ref: the reference is released unconditionally
release_ref_mut(s, o, ev) ==
    [c |-> Log(s.c, ev, TRUE), life |-> [s.life EXCEPT !.released[o] = @ + 1]]
\* `if (p->x) X_Release(p->x)' (lines 579..589), and talloc_free(p->x), which
\* does nothing for a NULL pointer (lines 576..577)
release_ref(s, o, ev) ==
    IF s.life.ptr[o] = NULL THEN s
    ELSE [c |-> Log(s.c, ev, TRUE), life |-> [s.life EXCEPT !.released[o] = @ + 1]]

\* talloc_free(p->pool): the pool frees the surfaces nothing references
free_pool(s) ==
    release_ref([s EXCEPT !.c = IF s.life.ptr["pool"] = NULL THEN @
                                 ELSE mp_image_pool_clear(@)],
                "pool", "talloc_free_pool")

\* a faulty variant of uninit: the device is released before the video context
uninit_mut(s) ==
    With([s EXCEPT !.c = Log(destroy_video_proc(@), "mp_refqueue_flush", TRUE)], LAMBDA s1 :
    With(release_ref(s1, "queue", "talloc_free_queue"), LAMBDA s2 :
    With(free_pool(s2), LAMBDA s3 :
    With(release_ref(s3, "vo_dev", "ID3D11Device_Release"), LAMBDA s4 :
    With(release_ref(s4, "video_dev", "ID3D11VideoDevice_Release"), LAMBDA s5 :
    With(release_ref(s5, "device_ctx", "ID3D11DeviceContext_Release"), LAMBDA s6 :
         release_ref(s6, "video_ctx", "ID3D11VideoContext_Release")))))))
\* uninit (lines 569..590), the filter's destroy callback
uninit(s) ==
    With([s EXCEPT !.c = Log(destroy_video_proc(@), "mp_refqueue_flush", TRUE)], LAMBDA s1 :
    With(release_ref(s1, "queue", "talloc_free_queue"), LAMBDA s2 :
    With(free_pool(s2), LAMBDA s3 :
    With(release_ref(s3, "video_ctx", "ID3D11VideoContext_Release"), LAMBDA s4 :
    With(release_ref(s4, "video_dev", "ID3D11VideoDevice_Release"), LAMBDA s5 :
    With(release_ref(s5, "device_ctx", "ID3D11DeviceContext_Release"), LAMBDA s6 :
         release_ref(s6, "vo_dev", "ID3D11Device_Release")))))))

\* talloc_free(f): the filter's destructor runs the destroy callback
talloc_free_filter(s) ==
    [uninit([s EXCEPT !.c = Log(@, "talloc_free", TRUE)]) EXCEPT !.life.phase = "refused"]

\* the steps of vf_d3d11sr_create that can fail, and "none"
CreateFailPoints ==
    {"none", "mp_filter_create", "stream_info", "hwctx", "video_dev",
     "device_ctx", "video_ctx"}

\* a step of vf_d3d11sr_create: the call is logged with its outcome
create_step(s, ev, fail) == [s EXCEPT !.c = Log(@, ev, fail # ev)]

\* vf_d3d11sr_create (lines 600..666); `fail' is the step that fails
create(s, fail) ==
    With(create_step(s, "mp_filter_create", fail), LAMBDA s0 :
    IF fail = "mp_filter_create" THEN [s0 EXCEPT !.life.phase = "refused"]
    ELSE With(create_step(acquire(s0, "queue"), "stream_info", fail), LAMBDA s1 :
    IF fail = "stream_info" THEN talloc_free_filter(s1)
    ELSE With(create_step(s1, "hwctx", fail), LAMBDA s2 :
    IF fail = "hwctx" THEN talloc_free_filter(s2)
    ELSE With(create_step(acquire(s2, "vo_dev"), "video_dev", fail), LAMBDA s3 :
    IF fail = "video_dev" THEN talloc_free_filter(s3)
    ELSE With(create_step(acquire(s3, "video_dev"), "device_ctx", fail), LAMBDA s4 :
    IF fail = "device_ctx" THEN talloc_free_filter(s4)
    ELSE With(create_step(acquire(s4, "device_ctx"), "video_ctx", fail), LAMBDA s5 :
    IF fail = "video_ctx" THEN talloc_free_filter(s5)
    ELSE [acquire(acquire(s5, "video_ctx"), "pool") EXCEPT !.life.phase = "bound"]))))))

\* the framework constructs the filter
vf_d3d11sr_create ==
    /\ life.phase = "unbound"
    /\ \E fail \in CreateFailPoints :
          \E r \in {create([c |-> Start("vf_d3d11sr_create"), life |-> life], fail)} :
             Commit(r.c, q) /\ life' = r.life
    /\ UNCHANGED <<opts, cycles, rs, upl>>

\* the framework destroys the filter
vf_d3d11sr_destroy ==
    /\ life.phase = "bound"
    /\ ~crashed
    /\ \E r \in {uninit([c |-> Start("uninit"), life |-> life])} :
          Commit(r.c, mp_refqueue_flush(q)) /\ life' = [r.life EXCEPT !.phase = "destroyed"]
    /\ UNCHANGED <<opts, cycles, rs, upl>>

\* get_render_size and the upload are not running
NoSize == [in |-> <<0, 0>>, target |-> <<0, 0>>, out |-> <<0, 0>>, done |-> FALSE]
NoUpload == [phase |-> "idle"]

\* the scale options behaviours start from: a fixed target and a relative one
InitScales == {SUPER_RESOLUTION_AUTO, SUPER_RESOLUTION_2X}

\* a zeroed struct priv, an empty queue and an empty pool (lines 603..659)
InitPriv ==
    /\ p = [video_proc |-> NULL, vp_enum |-> NULL, vp_desc |-> NoDesc,
            src_rc |-> [right |-> 0, bottom |-> 0],
            out_format |-> IMGFMT_NONE, params |-> NoParams,
            out_params |-> NoParams, c_w |-> 0, c_h |-> 0]
    /\ q = [in_fmt |-> NoParams, frame |-> NoFrame]
    /\ pool = {}
    /\ held = {}
    /\ live = [proc |-> 0, vp_enum |-> 0, in_view |-> 0, out_view |-> 0,
               upload_tex |-> 0, out_tex |-> 0]
    /\ failed = FALSE
    /\ crashed = FALSE
    /\ gen = 0
    /\ next_id = 0
    /\ cycles = 0
    /\ trace = <<>>
    /\ hist = [last |-> [set |-> FALSE, w |-> 0, h |-> 0], broken |-> FALSE,
               results |-> <<>>, n_rebuilt |-> 0, n_runs |-> 0, n_runs_cut |-> 0,
               same |-> FALSE, flushed |-> FALSE, after_flush |-> FALSE,
               n_dropped |-> 0, n_pass |-> 0, n_off |-> 0,
               seen |-> [set |-> FALSE, w |-> 0, h |-> 0],
               checked |-> FALSE, rendered |-> FALSE]

\* the filter's own state as vf_d3d11sr_create starts from, with the options
\* it was given
InitFilter ==
    /\ opts \in [mode : Modes, scale : InitScales]
    /\ InitPriv

\* the state vf_d3d11sr_create leaves when it returns the filter (line 661)
Init == InitFilter /\ life = Bound /\ rs = NoSize /\ upl = NoUpload

Next == vf_d3d11sr_process \/ flush_frames \/ release_image

Spec == Init /\ [][Next]_vars

\* The whole life of one filter: construction, at most LifeCycles process
\* cycles, teardown.
LifeCycles == 1
InitLife == InitFilter /\ life = Unbound /\ rs = NoSize /\ upl = NoUpload
NextLife ==
    \/ vf_d3d11sr_create
    \/ (cycles < LifeCycles /\ vf_d3d11sr_process)
    \/ flush_frames
    \/ release_image
    \/ vf_d3d11sr_destroy
SpecLife == InitLife /\ [][NextLife]_vars

\* ------------------------------------------------------------------------
\* get_render_size on its own: the arguments are drawn from every size up to
\* MaxDim and from a few video and display sizes.
\* ------------------------------------------------------------------------
MaxDim == 4
VideoSizes ==
    {<<1280, 720, 1920, 1080>>, <<640, 360, 1920, 1080>>,
     <<720, 480, 1920, 1080>>, <<1920, 1080, 1280, 720>>,
     <<1920, 800, 1920, 1080>>, <<854, 480, 2560, 1440>>,
     <<3840, 2160, 1920, 1080>>, <<720, 576, 3840, 2160>>}
SizeArgs ==
    VideoSizes \cup
    { <<iw, ih, tw, th>> : iw \in 1..MaxDim, ih \in 1..MaxDim,
                           tw \in 1..MaxDim, th \in 1..MaxDim }
\* the caller computes a render size (lines 512..540)
call_get_render_size ==
    /\ ~rs.done
    /\ rs' = [rs EXCEPT !.out = get_render_size(rs.in[1], rs.in[2],
                                                 rs.target[1], rs.target[2]),
                         !.done = TRUE]
    /\ UNCHANGED <<opts, p, q, pool, held, live, failed, crashed, gen, next_id,
                   cycles, trace, hist, life, upl>>
InitSize ==
    /\ InitFilter
    /\ opts = [mode |-> SUPER_RESOLUTION_NVIDIA, scale |-> SUPER_RESOLUTION_AUTO]
    /\ life = Bound
    /\ upl = NoUpload
    /\ rs \in { [in |-> <<a[1], a[2]>>, target |-> <<a[3], a[4]>>,
                  out |-> <<0, 0>>, done |-> FALSE] : a \in SizeArgs }
NextSize == call_get_render_size
SpecSize == InitSize /\ [][NextSize]_vars

\* ------------------------------------------------------------------------
\* The output size the reinit block derives (lines 512..543) on its own: the
\* input sizes are the even sizes up to 2 * MaxHalf and a few even video
\* sizes, the scale is any of the seven settings.
\* ------------------------------------------------------------------------
MaxHalf == 2
EvenInputs ==
    {<<854, 480>>, <<426, 240>>, <<640, 360>>, <<720, 480>>, <<1280, 720>>,
     <<1920, 800>>, <<1920, 1080>>, <<3840, 2160>>}
    \cup { <<2 * i, 2 * j>> : i \in 1..MaxHalf, j \in 1..MaxHalf }
\* the scale switch and the call of get_render_size (lines 512..541)
reinit_size ==
    /\ ~rs.done
    /\ opts.mode # SUPER_RESOLUTION_OFF
    /\ \E win \in {window_size(opts.scale, rs.in[1], rs.in[2])} :
          rs' = [rs EXCEPT !.target = win,
                           !.out = get_render_size(rs.in[1], rs.in[2], win[1], win[2]),
                           !.done = TRUE]
    /\ UNCHANGED <<opts, p, q, pool, held, live, failed, crashed, gen, next_id,
                   cycles, trace, hist, life, upl>>
InitReinitSize ==
    /\ InitPriv
    /\ opts \in [mode : Modes \ {SUPER_RESOLUTION_OFF}, scale : Scales]
    /\ life = Bound
    /\ upl = NoUpload
    /\ rs \in { [in |-> a, target |-> <<0, 0>>, out |-> <<0, 0>>, done |-> FALSE]
                  : a \in EvenInputs }
NextReinitSize == reinit_size
SpecReinitSize == InitReinitSize /\ [][NextReinitSize]_vars

\* ------------------------------------------------------------------------
\* The software upload of a planar 4:2:0 frame (lines 372..414) on its own.
\* A source plane is an array of bytes whose rows are `stride' apart; the
\* byte at an offset is the sample of that row and column, or padding.  The
\* mapped texture is an array of pitch * (h + h / 2) bytes.
\* ------------------------------------------------------------------------
MaxPad == 1
UploadDims == {2, 4}
\* the byte at offset o of a plane with rows of `width' samples
PlaneByte(plane, o, stride, width) ==
    IF o % stride < width THEN <<plane, o % stride, o \div stride>>
    ELSE <<"padding", 0, 0>>
Junk == <<"junk", 0, 0>>

\* one pass of the luma loop (lines 392..395): memcpy of `width' bytes from
\* in->planes[0] + width * i to dptr + RowPitch * i
copy_luma_row(u) ==
    [u EXCEPT !.dst = [o \in DOMAIN u.dst |->
                          IF o \in (u.pitch * u.row)..(u.pitch * u.row + u.w - 1)
                          THEN PlaneByte("Y", u.w * u.row + (o - u.pitch * u.row),
                                         u.ystride, u.w)
                          ELSE u.dst[o]],
              !.row = @ + 1]

\* one pass of the outer chroma loop (lines 400..410): U and V bytes of row i
\* are read at (i * width / 2) + j and written at dptr++, then dptr skips
\* RowPitch - width
copy_chroma_row(u) ==
    [u EXCEPT !.dst = [o \in DOMAIN u.dst |->
                          IF o \in u.dptr..(u.dptr + u.w - 1)
                          THEN PlaneByte(IF (o - u.dptr) % 2 = 0 THEN "U" ELSE "V",
                                         ((u.row * u.w) \div 2) + ((o - u.dptr) \div 2),
                                         u.cstride, u.w \div 2)
                          ELSE u.dst[o]],
              !.dptr = @ + u.w + (u.pitch - u.w),
              !.row = @ + 1]

upload_luma ==
    /\ upl.phase = "luma"
    /\ upl' = IF upl.row < upl.h THEN copy_luma_row(upl)
              ELSE [upl EXCEPT !.phase = "chroma", !.row = 0,
                               !.dptr = upl.pitch * upl.h]
    /\ UNCHANGED <<opts, p, q, pool, held, live, failed, crashed, gen, next_id,
                   cycles, trace, hist, life, rs>>
upload_chroma ==
    /\ upl.phase = "chroma"
    /\ upl' = IF upl.row < upl.h \div 2 THEN copy_chroma_row(upl)
              ELSE [upl EXCEPT !.phase = "done"]
    /\ UNCHANGED <<opts, p, q, pool, held, live, failed, crashed, gen, next_id,
                   cycles, trace, hist, life, rs>>

\* the frame and the mapping the upload starts from (lines 373..391)
Uploads ==
    { [phase |-> "luma", w |-> uw, h |-> uh, pitch |-> uw + pp, ystride |-> uw + ys,
       cstride |-> (uw \div 2) + cs, row |-> 0, dptr |-> 0,
       dst |-> [o \in 0..((uw + pp) * (uh + uh \div 2) - 1) |-> Junk]]
        : uw \in UploadDims, uh \in UploadDims,
          pp \in 0..MaxPad, ys \in 0..MaxPad, cs \in 0..MaxPad }
InitUpload ==
    /\ InitFilter
    /\ opts = [mode |-> SUPER_RESOLUTION_NVIDIA, scale |-> SUPER_RESOLUTION_AUTO]
    /\ life = Bound
    /\ rs = NoSize
    /\ upl \in Uploads
NextUpload == upload_luma \/ upload_chroma
SpecUpload == InitUpload /\ [][NextUpload]_vars

\* ------------------------------------------------------------------------
\* Properties.  trace holds the calls of the last operation; a process cycle
\* is a trace that starts with vf_d3d11sr_process.
\* ------------------------------------------------------------------------
InCycle == trace # <<>> /\ trace[1].e = "vf_d3d11sr_process"
\* the images the last operation wrote to the output pin
Emitted == { trace[i].img : i \in { j \in 1..Len(trace) :
                 trace[j].e = "mp_refqueue_write_out_pin" /\ trace[j].ok } }
OddParams == p.params.w % 2 = 1 \/ p.params.h % 2 = 1
\* calls that create, allocate or submit something
GpuWork == {"alloc_pool", "mp_image_pool_get", "CreateTexture2D_upload",
            "recreate_video_proc", "CreateVideoProcessorEnumerator",
            "CreateVideoProcessor", "CreateVideoProcessorInputView",
            "CreateVideoProcessorOutputView", "VideoProcessorBlt"}
Submission == {"mp_image_new_ref", "mp_refqueue_write_out_pin"}
\* the calls whose failure makes render return no image
RenderSteps == {"mp_image_pool_get", "mp_refqueue_get", "geometry_check",
                "CreateVideoProcessorInputView",
                "CreateVideoProcessorOutputView", "VideoProcessorBlt"}
RenderFailed == \E n \in RenderSteps : HasFailed(trace, n)
RebuildSteps == {"CreateVideoProcessorEnumerator", "GetVideoProcessorCaps",
                 "CreateVideoProcessor"}
RebuildFailed == \E n \in RebuildSteps : HasFailed(trace, n)
ExtensionSteps == {"SetStreamExtension_Nvidia", "SetOutputExtension_IntelVersion",
                   "SetOutputExtension_IntelMode",
                   "SetStreamExtension_IntelScaling"}
ExtensionFailed == \E n \in ExtensionSteps : HasFailed(trace, n)

\* C1: a process cycle writes at most one image to the output pin; in mode
\* Off it is a reference to the current input image (its size is the
\* stream's), in a super-resolution mode it is a rendered image whose surface
\* is a referenced surface of the output pool; never the other way round.
C1_OneOutputPerCycle ==
    InCycle =>
        /\ Count(trace, "mp_refqueue_write_out_pin") <= 1
        /\ \A img \in Emitted :
              /\ img.kind \in {"pass", "render"}
              /\ img.kind = "pass" <=> opts.mode = SUPER_RESOLUTION_OFF
              /\ img.kind = "render" <=> opts.mode # SUPER_RESOLUTION_OFF
              /\ img.kind = "pass" => img.w = p.params.w /\ img.h = p.params.h
              /\ img.kind = "render" =>
                    /\ img \in held
                    /\ \E s \in pool : s.id = img.id /\ s.referenced
\* a super-resolution cycle that emitted a rendered image
C1_Witness ==
    /\ InCycle
    /\ opts.mode # SUPER_RESOLUTION_OFF
    /\ \E img \in Emitted : img.kind = "render"

\* C2: a cycle in which the queue can output and the input width or height
\* is odd marks the stream failed as its last call, and before that makes no
\* pool allocation, texture creation, processor rebuild or output
\* submission, whatever the mode.
C2_OddFailsBeforeGpuWork ==
    (InCycle /\ HasOk(trace, "mp_refqueue_can_output") /\ OddParams) =>
        /\ failed
        /\ trace[Len(trace)].e = "mp_filter_internal_mark_failed"
        /\ Names(trace) \cap (GpuWork \cup Submission) = {}
        /\ Emitted = {}
\* an odd-height frame failed the stream in a super-resolution mode
C2_Witness ==
    /\ InCycle /\ HasOk(trace, "mp_refqueue_can_output")
    /\ p.params.h % 2 = 1 /\ p.params.w % 2 = 0
    /\ opts.mode # SUPER_RESOLUTION_OFF
    /\ failed

\* C3 as stated: the stream is marked failed in a cycle only if the input
\* width or height is odd.
C3_FailedOnlyIfOdd ==
    (InCycle /\ Has(trace, "mp_filter_internal_mark_failed")) => OddParams
\* C3 as amended: the filter marks the stream failed in a cycle only if the
\* input width or height is odd, or the mode is Off and the pass-through
\* reference could not be obtained; no failure inside render marks it.
C3_FailedOnlyIfOddOrNoPassRef ==
    /\ (InCycle /\ Has(trace, "mp_filter_internal_mark_failed")) =>
          \/ OddParams
          \/ /\ opts.mode = SUPER_RESOLUTION_OFF
             /\ HasFailed(trace, "mp_image_new_ref")
    /\ (InCycle /\ (RenderFailed \/ ExtensionFailed)) =>
          ~Has(trace, "mp_filter_internal_mark_failed")
\* the stream failed on an even-sized frame in mode Off
C3_Witness ==
    /\ InCycle /\ failed /\ ~OddParams
    /\ opts.mode = SUPER_RESOLUTION_OFF
    /\ HasFailed(trace, "mp_image_new_ref")
    /\ Has(trace, "mp_filter_internal_mark_failed")

\* the surface render took from the pool in the last operation, if any
Taken == { trace[i].img : i \in { j \in 1..Len(trace) :
               trace[j].e = "mp_image_pool_get" /\ trace[j].ok } }
Freed == { trace[i].img.id : i \in { j \in 1..Len(trace) :
               trace[j].e = "TA_FREEP_out" } }

\* C4: in a super-resolution mode, a cycle whose render fails at any step
\* emits nothing; the output image taken from the pool is freed (its surface
\* is back in the pool, unreferenced, and nobody holds it); every view that
\* was created is released; and the stream is not marked failed, so that a
\* later cycle renders again.
C4_RenderFailureDropsFrame ==
    (InCycle /\ opts.mode # SUPER_RESOLUTION_OFF /\ RenderFailed) =>
        /\ Emitted = {}
        /\ \A img \in Taken :
              /\ img.id \in Freed
              /\ \A h \in held : h.id # img.id
              /\ \E s \in pool : s.id = img.id /\ ~s.referenced
        /\ CountOk(trace, "CreateVideoProcessorInputView")
              = Count(trace, "ID3D11VideoProcessorInputView_Release")
        /\ CountOk(trace, "CreateVideoProcessorOutputView")
              = Count(trace, "ID3D11VideoProcessorOutputView_Release")
        /\ live.in_view = 0 /\ live.out_view = 0
        /\ ~Has(trace, "mp_filter_internal_mark_failed")
\* a frame is rendered and emitted after an earlier render dropped its frame
C4_Witness ==
    /\ InCycle /\ opts.mode # SUPER_RESOLUTION_OFF
    /\ hist.n_dropped >= 1
    /\ ~RenderFailed
    /\ \E img \in Emitted : img.kind = "render"

\* C5: in mode Off, every cycle that has an even-sized input frame to pass
\* emits one pass-through reference (as many emitted as there were such
\* cycles), the allocator of the output pool is never called, and no video
\* processor or enumerator is ever created.
C5_OffPassesEveryFrame ==
    opts.mode = SUPER_RESOLUTION_OFF =>
        /\ hist.n_pass = hist.n_off
        /\ next_id = 0 /\ pool = {} /\ held = {}
        /\ Names(trace) \cap GpuWork = {}
        /\ p.video_proc = NULL /\ p.vp_enum = NULL
        /\ live.proc = 0 /\ live.vp_enum = 0 /\ live.out_tex = 0
\* two frames passed through in mode Off
C5_Witness ==
    /\ opts.mode = SUPER_RESOLUTION_OFF
    /\ hist.n_off >= 2 /\ hist.n_pass >= 2
    /\ \E img \in Emitted : img.kind = "pass"

C7_RebuildFailureIsRetried ==
    /\ (InCycle /\ RebuildFailed) =>
          /\ p.video_proc = NULL /\ p.vp_enum = NULL
          /\ live.proc = 0 /\ live.vp_enum = 0
          /\ Emitted = {}
          /\ ~Has(trace, "mp_filter_internal_mark_failed")
    /\ (Len(hist.results) = 2 /\ hist.results[1] = "fail") =>
          hist.results[2] \in {"ok", "fail"}
    /\ (hist.results # <<>> /\ hist.results[Len(hist.results)] = "fail") =>
          p.video_proc = NULL /\ p.vp_enum = NULL
\* a rebuild that failed after the enumerator was created, retried with
\* success by the next render
C7_Witness ==
    /\ InCycle
    /\ hist.results = <<"fail", "ok">>
    /\ p.video_proc # NULL
    /\ \E img \in Emitted : img.kind = "render"

\* C8: a cycle in which a vendor extension call fails still issues the
\* processing submission, after the extension calls; if the submission
\* succeeds, the cycle emits the rendered image (the pool surface taken for
\* this frame, with the output size), and if it fails, nothing; the stream
\* is not marked failed.
C8_VendorFailureNeverFailsFrame ==
    (InCycle /\ ExtensionFailed) =>
        /\ Count(trace, "VideoProcessorBlt") = 1
        /\ \A n \in ExtensionSteps : Before(trace, n, "VideoProcessorBlt")
        /\ HasOk(trace, "VideoProcessorBlt") =>
              /\ Emitted # {}
              /\ Emitted = { [t EXCEPT !.w = p.out_params.w,
                                       !.h = p.out_params.h] : t \in Taken }
        /\ HasFailed(trace, "VideoProcessorBlt") => Emitted = {}
        /\ ~Has(trace, "mp_filter_internal_mark_failed")
\* the second Intel extension call failed and the frame was emitted
C8_Witness ==
    /\ InCycle /\ opts.mode = SUPER_RESOLUTION_INTEL
    /\ HasFailed(trace, "SetOutputExtension_IntelMode")
    /\ HasOk(trace, "VideoProcessorBlt")
    /\ \E img \in Emitted : img.kind = "render"

\* C9: a cycle with a reinit clears the output pool before it requests any
\* surface; every surface in the pool was allocated after the last reinit,
\* and every rendered image emitted has a surface allocated after the last
\* reinit, of the current output size.
C9_ReinitClearsPool ==
    /\ (InCycle /\ Has(trace, "reinit")) =>
          /\ Count(trace, "mp_image_pool_clear") = 1
          /\ Before(trace, "mp_image_pool_clear", "mp_image_pool_get")
          /\ Before(trace, "mp_image_pool_clear", "alloc_pool")
          /\ \A s \in pool : \E t \in Taken : t.id = s.id
    /\ \A s \in pool :
          s.gen = gen /\ s.w = p.out_params.w /\ s.h = p.out_params.h
    /\ InCycle =>
          \A img \in Taken \cup Emitted :
              img.kind = "render" =>
                  /\ img.gen = gen
                  /\ \E s \in pool : s.id = img.id /\ s.gen = gen
                                     /\ s.w = p.out_params.w
                                     /\ s.h = p.out_params.h
\* a reinit met a pool that had issued a surface, and the frame after it was
\* rendered into a new one
C9_Witness ==
    /\ InCycle /\ Has(trace, "reinit")
    /\ gen = 2
    /\ \E img \in Emitted : img.kind = "render" /\ img.id = 2 /\ img.gen = 2

\* C10: a flush drops the queued frame and leaves the processor, the
\* enumerator, the recorded source size, the stream parameters, the output
\* pool and every driver object as they were; the first geometry check after
\* a flush, on a surface of the size rendered before it and with no reinit
\* in between, keeps the processor.
FlushStep == trace' # <<>> /\ trace'[1].e = "flush_frames"
C10_FlushStep ==
    /\ FlushStep =>
          /\ p' = p /\ pool' = pool /\ live' = live /\ held' = held
          /\ gen' = gen /\ failed' = failed
          /\ q'.frame = NoFrame /\ q'.in_fmt = q.in_fmt
    /\ (hist'.after_flush /\ hist'.same) =>
          hist'.results[Len(hist'.results)] = "keep"
C10_FlushKeepsProcessor == [][C10_FlushStep]_vars
\* a frame rendered after a flush without a rebuild
C10_Witness ==
    /\ InCycle
    /\ hist.after_flush /\ hist.same
    /\ hist.results = <<"ok", "keep">>
    /\ \E img \in Emitted : img.kind = "render"


\* the last operation tore the filter down: the destroy callback ran, called
\* by the framework or by the failure path of vf_d3d11sr_create
InTeardown == trace # <<>> /\ (trace[1].e = "uninit" \/ Has(trace, "talloc_free"))
InCreate == trace # <<>> /\ trace[1].e = "vf_d3d11sr_create"
TeardownOrder ==
    <<"ID3D11VideoProcessor_Release", "ID3D11VideoProcessorEnumerator_Release",
      "talloc_free_queue", "talloc_free_pool", "ID3D11VideoContext_Release",
      "ID3D11VideoDevice_Release", "ID3D11DeviceContext_Release",
      "ID3D11Device_Release">>
\* the releases of the objects vf_d3d11sr_create acquired
OwnedReleases == { TeardownOrder[i] : i \in 3..Len(TeardownOrder) }

\* C11: teardown releases in the order processor, enumerator, frame queue,
\* image pool, video context, video device, immediate context, device: no
\* release happens before one that precedes it in this order, each happens at
\* most once, and when a constructed filter is destroyed each of the six
\* objects the construction acquired is released and no processor or
\* enumerator is left.
C11_TeardownOrder ==
    InTeardown =>
        /\ \A i, j \in 1..Len(TeardownOrder) :
              i < j => Before(trace, TeardownOrder[i], TeardownOrder[j])
        /\ \A i \in 1..Len(TeardownOrder) : Count(trace, TeardownOrder[i]) <= 1
        /\ \A o \in Objs : life.released[o] <= 1
        /\ life.phase = "destroyed" =>
              /\ \A n \in OwnedReleases : Count(trace, n) = 1
              /\ p.video_proc = NULL /\ p.vp_enum = NULL
              /\ live.proc = 0 /\ live.vp_enum = 0
C11_Witness ==
    /\ life.phase = "destroyed"
    /\ Has(trace, "ID3D11VideoProcessor_Release")
    /\ Has(trace, "ID3D11VideoProcessorEnumerator_Release")
    /\ Has(trace, "ID3D11Device_Release")
    /\ hist.n_rebuilt > 0

\* C12: a construction in which a step fails is refused, and then every
\* object acquired before the failing step is released exactly once and
\* nothing else is released (a failure of the video-context query releases
\* the device, the video device and the immediate context, and no video
\* context); a refused filter never processes; and after a successful
\* construction and teardown each of the four device references is released
\* exactly once.  At no time is anything released that was not acquired.
C12_FailedConstructionReleases ==
    /\ \A o \in Objs : life.released[o] <= life.acquired[o] /\ life.acquired[o] <= 1
    /\ InCreate =>
          /\ (life.phase = "refused") <=> (\E n \in CreateFailPoints : HasFailed(trace, n))
          /\ (life.phase = "bound") <=> ~(\E n \in CreateFailPoints : HasFailed(trace, n))
    /\ life.phase = "refused" =>
          /\ \A o \in Objs : life.released[o] = life.acquired[o]
          /\ cycles = 0 /\ held = {} /\ pool = {}
          /\ HasFailed(trace, "video_ctx") =>
                /\ \A o \in {"vo_dev", "video_dev", "device_ctx", "queue"} :
                      life.released[o] = 1
                /\ life.released["video_ctx"] = 0 /\ life.released["pool"] = 0
          /\ HasFailed(trace, "stream_info") =>
                \A o \in Refs : life.acquired[o] = 0
    /\ life.phase = "destroyed" =>
          \A o \in Refs : life.acquired[o] = 1 /\ life.released[o] = 1
C12_Witness ==
    /\ life.phase = "refused"
    /\ HasFailed(trace, "video_ctx")
    /\ life.released["device_ctx"] = 1
    /\ Has(trace, "ID3D11Device_Release")


\* round(a / b) for positive integers, halves rounded up
RoundDiv(a, b) == (2 * a + b) \div (2 * b)
\* the render size the policy describes: fit the width, and if the height
\* then exceeds the target, fit the height
FitSize(iw, ih, tw, th) ==
    IF RoundDiv(tw * ih, iw) > th THEN <<RoundDiv(th * iw, ih), th>>
    ELSE <<tw, RoundDiv(tw * ih, iw)>>
SizeFits == rs.in[1] <= rs.target[1] /\ rs.in[2] <= rs.target[2]

\* C13: for an input that fits the target, get_render_size returns the target
\* width and the height round(target_w / aspect), or, if that height exceeds
\* the target height, the target height and the width round(target_h *
\* aspect), where aspect = input_w / input_h.
C13_RenderSizeFormula ==
    (rs.done /\ SizeFits) =>
        rs.out = FitSize(rs.in[1], rs.in[2], rs.target[1], rs.target[2])
\* the three sizes the policy gives as examples do come out as stated
C13_NamedExamples ==
    rs.done =>
        /\ (rs.in = <<1280, 720>> /\ rs.target = <<1920, 1080>>) => rs.out = <<1920, 1080>>
        /\ (rs.in = <<640, 360>> /\ rs.target = <<1920, 1080>>) => rs.out = <<1920, 1080>>
        /\ (rs.in = <<720, 480>> /\ rs.target = <<1920, 1080>>) => rs.out = <<1620, 1080>>

\* C14: get_render_size never downscales: the output is at least the input in
\* both dimensions; an input larger than the target in a dimension is
\* returned unchanged; an input that fits the target gives an output that
\* fits the target.
C14_NeverDownscales ==
    rs.done =>
        /\ rs.out[1] >= rs.in[1] /\ rs.out[2] >= rs.in[2]
        /\ ~SizeFits => rs.out = rs.in
        /\ SizeFits => (rs.out[1] <= rs.target[1] /\ rs.out[2] <= rs.target[2])
\* the parts of C14 that do hold: an oversized input is unchanged, and a
\* fitting input gives an output within the target
C14_UnchangedOrWithinTarget ==
    rs.done =>
        /\ ~SizeFits => rs.out = rs.in
        /\ SizeFits => (rs.out[1] <= rs.target[1] /\ rs.out[2] <= rs.target[2])


\* the index of the geometry read in the trace, and the sizes it reported
DescAt(tr) == CHOOSE i \in 1..Len(tr) : tr[i].e = "ID3D11Texture2D_GetDesc"
\* releases and creations of a processor or an enumerator
RebuildCalls == {"ID3D11VideoProcessor_Release",
                 "ID3D11VideoProcessorEnumerator_Release",
                 "CreateVideoProcessorEnumerator", "CreateVideoProcessor"}
\* a step that is a process cycle reaching the geometry check: the processor
\* the check sees is the one before the cycle unless the cycle's reinit
\* destroyed it; the recorded sizes are those before the cycle
C15_Step ==
    (trace' # <<>> /\ trace'[1].e = "vf_d3d11sr_process"
        /\ Has(trace', "ID3D11Texture2D_GetDesc")) =>
    LET at == DescAt(trace')
        d == trace'[at].img
        absent == p.video_proc = NULL \/ Has(trace', "reinit")
        differ == p.c_w # d.w \/ p.c_h # d.h
    IN  /\ Has(trace', "recreate_video_proc") <=> (absent \/ differ)
        /\ ~(absent \/ differ) =>
              /\ \A i \in at..Len(trace') : trace'[i].e \notin RebuildCalls
              /\ p'.video_proc = p.video_proc /\ p'.vp_enum = p.vp_enum
              /\ p'.c_w = p.c_w /\ p'.c_h = p.c_h
              /\ live'.proc = live.proc /\ live'.vp_enum = live.vp_enum

\* C15: in a cycle that reaches the geometry check, the processor is rebuilt
\* exactly when it is absent at the check or the recorded source width or
\* height differs from the width or height of the input texture; when it is
\* present and the sizes are equal, the frame releases and creates no
\* processor and no enumerator.
C15_RebuildExactlyWhen == [][C15_Step]_vars
C15_Witness ==
    /\ InCycle
    /\ Has(trace, "ID3D11Texture2D_GetDesc")
    /\ ~Has(trace, "recreate_video_proc")
    /\ hist.results = <<"ok", "keep">>
    /\ p.video_proc # NULL
\* a rebuild caused by a size change alone: the processor was present
C15_WitnessSizeChange ==
    /\ InCycle
    /\ ~Has(trace, "reinit")
    /\ Has(trace, "recreate_video_proc")
    /\ hist.results = <<"ok", "ok">>


\* the recorded source size is the size of the last surface that reached the
\* geometry check
RecordedIsSeen == hist.seen.set /\ p.c_w = hist.seen.w /\ p.c_h = hist.seen.h
\* the most recent rebuild attempt failed
LastRebuildFailed ==
    hist.results # <<>> /\ hist.results[Len(hist.results)] = "fail"

\* C16 as stated: between operations, a processor implies that the recorded
\* source size is the size of the last surface that reached the geometry
\* check, and there is no processor whenever render has returned no image
\* since construction or the last reinit, or the last rebuild attempt failed.
C16_ProcessorInvariant ==
    /\ p.video_proc # NULL => RecordedIsSeen
    /\ ~hist.rendered => p.video_proc = NULL
    /\ LastRebuildFailed => p.video_proc = NULL
\* C16, amended: as above, but there is no processor whenever no frame has
\* reached the geometry check since construction or the last reinit (a frame
\* that reaches the check builds the processor even if the frame is then
\* dropped at a later step).
C16_ProcessorInvariantSinceCheck ==
    /\ p.video_proc # NULL => RecordedIsSeen
    /\ ~hist.checked => p.video_proc = NULL
    /\ LastRebuildFailed => p.video_proc = NULL
    /\ (p.video_proc = NULL) = (live.proc = 0)
C16_Witness ==
    /\ p.video_proc # NULL
    /\ ~hist.rendered
    /\ hist.checked
    /\ RenderFailed
    /\ gen > 1


\* the index of the buffering-sufficiency check in a cycle's trace
CanOutputAt(tr) == CHOOSE i \in 1..Len(tr) : tr[i].e = "mp_refqueue_can_output"
\* the calls of the reinit handling
ReinitCalls == {"reinit", "mp_image_pool_clear", "ID3D11VideoProcessor_Release",
                "ID3D11VideoProcessorEnumerator_Release"}
C17_Step ==
    (trace' # <<>> /\ trace'[1].e = "vf_d3d11sr_process") =>
    LET tr == trace'
        at == CanOutputAt(tr)
        reinit == Has(tr, "reinit")
    IN  /\ Count(tr, "mp_refqueue_can_output") = 1
        \* reinit first: detected iff the arriving frame changes the format,
        \* and all of its handling precedes the buffering check
        /\ reinit <=> (q'.in_fmt # q.in_fmt)
        /\ reinit =>
              /\ \E i \in 1..(at - 1) : tr[i].e = "mp_image_pool_clear"
              /\ \A i \in 2..(at - 1) : tr[i].e \in ReinitCalls
              /\ p'.params = q'.in_fmt
              /\ gen' = gen + 1
              /\ p.video_proc # NULL =>
                    \E i \in 1..(at - 1) : tr[i].e = "ID3D11VideoProcessor_Release"
        /\ ~reinit => at = 2
        \* parity after buffering
        /\ Before(tr, "mp_refqueue_can_output", "mp_filter_internal_mark_failed")
        /\ \A i \in 1..at : tr[i].e \notin (GpuWork \cup Submission)
        \* insufficient input: the cycle ends at the buffering check
        /\ ~tr[at].ok =>
              /\ Len(tr) = at
              /\ failed' = failed /\ held' = held /\ next_id' = next_id
              /\ live'.out_tex <= live.out_tex /\ live'.upload_tex = live.upload_tex
              /\ q'.frame = (IF q.frame # NoFrame THEN q.frame ELSE q'.frame)
              /\ reinit => (p'.video_proc = NULL /\ \A s \in pool' : s.referenced)
              /\ ~reinit => (p' = p /\ pool' = pool /\ live' = live /\ gen' = gen)

\* C17: a process cycle checks in the order reinit, buffering sufficiency,
\* parity.  The reinit handling (parameters replaced, pool cleared, processor
\* discarded) is complete before the buffering check and happens also when
\* input is insufficient; with insufficient input the cycle ends there: no
\* output, no render, no pool allocation, the stream not marked failed, even
\* when the current width or height is odd.
C17_CheckOrder == [][C17_Step]_vars
C17_Witness ==
    /\ InCycle
    /\ HasFailed(trace, "mp_refqueue_can_output")
    /\ Has(trace, "reinit")
    /\ Has(trace, "ID3D11VideoProcessor_Release")
    /\ OddParams
    /\ q.frame # NoFrame
    /\ ~failed


IntelCalls == <<"SetOutputExtension_IntelVersion", "SetOutputExtension_IntelMode",
                "SetStreamExtension_IntelScaling">>

\* C18: in a cycle of the Intel mode, the three extension calls are issued in
\* the order version, mode, scaling, each at most once, and a call is issued
\* exactly when every earlier one succeeded; the version call is issued in
\* exactly the cycles in which both views were created (whether or not the
\* processor was rebuilt for the frame, so nothing is cached), after the
\* views and before VideoProcessorBlt, which follows whatever the calls
\* returned.  No other mode issues these calls.
C18_IntelCallOrder ==
    InCycle =>
        IF opts.mode # SUPER_RESOLUTION_INTEL
        THEN \A i \in 1..Len(IntelCalls) : ~Has(trace, IntelCalls[i])
        ELSE /\ \A i \in 1..Len(IntelCalls) : Count(trace, IntelCalls[i]) <= 1
             /\ \A i, j \in 1..Len(IntelCalls) :
                   i < j => /\ Before(trace, IntelCalls[i], IntelCalls[j])
                            /\ Has(trace, IntelCalls[j]) => HasOk(trace, IntelCalls[i])
             /\ \A i \in 1..(Len(IntelCalls) - 1) :
                   Has(trace, IntelCalls[i + 1]) <=> HasOk(trace, IntelCalls[i])
             /\ Has(trace, IntelCalls[1]) <=>
                   HasOk(trace, "CreateVideoProcessorOutputView")
             /\ Has(trace, IntelCalls[1]) <=> Has(trace, "VideoProcessorBlt")
             /\ \A i \in 1..Len(IntelCalls) :
                   /\ Before(trace, "CreateVideoProcessorInputView", IntelCalls[i])
                   /\ Before(trace, "CreateVideoProcessorOutputView", IntelCalls[i])
                   /\ Before(trace, IntelCalls[i], "VideoProcessorBlt")
C18_Witness ==
    /\ InCycle
    /\ opts.mode = SUPER_RESOLUTION_INTEL
    /\ hist.results = <<"ok", "keep">>
    /\ HasOk(trace, "SetOutputExtension_IntelVersion")
    /\ HasFailed(trace, "SetOutputExtension_IntelMode")
    /\ HasOk(trace, "VideoProcessorBlt")


\* C20: between operations no transient object of a render call is live:
\* every input view, every output view and every texture the software upload
\* created has been released when render returned, whatever path it took.
C20_TransientsReleased ==
    ~crashed => (live.in_view = 0 /\ live.out_view = 0 /\ live.upload_tex = 0)
\* the part of C20 that does hold: the two views are released on every path
C20_ViewsReleased ==
    ~crashed => (live.in_view = 0 /\ live.out_view = 0)


\* the mapped texture holds the frame: luma sample (x, y) at pitch * y + x,
\* U and V samples (cx, cy) at pitch * h + pitch * cy + 2 * cx and + 1
UploadedLayout ==
    /\ \A x \in 0..(upl.w - 1), y \in 0..(upl.h - 1) :
          upl.dst[upl.pitch * y + x] = <<"Y", x, y>>
    /\ \A cx \in 0..(upl.w \div 2 - 1), cy \in 0..(upl.h \div 2 - 1) :
          /\ upl.dst[upl.pitch * upl.h + upl.pitch * cy + 2 * cx] = <<"U", cx, cy>>
          /\ upl.dst[upl.pitch * upl.h + upl.pitch * cy + 2 * cx + 1] = <<"V", cx, cy>>

\* C19: when the upload of an even-sized planar frame is done, the texture
\* has the packed-luma, interleaved-chroma layout, for every destination
\* pitch >= w and every source stride >= the plane's row width.
C19_UploadLayout == upl.phase = "done" => UploadedLayout
\* what does hold: the layout is right for every destination pitch when the
\* source planes have no row padding
C19_UploadLayoutTightSource ==
    (upl.phase = "done" /\ upl.ystride = upl.w /\ upl.cstride = upl.w \div 2)
        => UploadedLayout


\* C21: with super-resolution enabled and an input of even width and height,
\* the output width and height the reinit derives are even, for every scale
\* setting.
C21_EvenOutputSize ==
    (rs.done /\ rs.in[1] % 2 = 0 /\ rs.in[2] % 2 = 0) =>
        (rs.out[1] % 2 = 0 /\ rs.out[2] % 2 = 0)


\* the rendered images the last operation wrote to the output pin
EmittedRendered == { img \in Emitted : img.kind = "render" }
\* the output size the most recent reinit derived
DerivedSize == render_size_for(q.in_fmt.w, q.in_fmt.h, opts.scale)

\* C22: a processor that exists was created for the current output
\* parameters: the output width and height its enumerator was created with
\* are the current out_params, which are those the most recent reinit derived
\* from the input parameters and the scale; and every rendered image a cycle
\* emits has this size, comes from a surface allocated since that reinit, and
\* is emitted with such a processor in place.
C22_ProcessorMatchesOutput ==
    /\ p.video_proc # NULL =>
          /\ p.vp_enum # NULL
          /\ p.vp_desc.OutputWidth = p.out_params.w
          /\ p.vp_desc.OutputHeight = p.out_params.h
    /\ (gen > 0 /\ opts.mode # SUPER_RESOLUTION_OFF) =>
          /\ p.params = q.in_fmt
          /\ <<p.out_params.w, p.out_params.h>> = DerivedSize
    /\ InCycle =>
          \A img \in EmittedRendered :
             /\ <<img.w, img.h>> = DerivedSize
             /\ img.gen = gen
             /\ p.video_proc # NULL
             /\ <<p.vp_desc.OutputWidth, p.vp_desc.OutputHeight>> = DerivedSize
C22_Witness ==
    /\ InCycle
    /\ gen = 2
    /\ Has(trace, "reinit")
    /\ EmittedRendered # {}
    /\ p.video_proc # NULL
    /\ hist.n_rebuilt = 2
    /\ \E img \in held : <<img.w, img.h>> # DerivedSize

====
